---- MODULE Spec2Model ----
(***************************************************************************)
(* Model of qudi.logic.taskrunner.TaskRunner: the task lifecycle manager.  *)
(*                                                                         *)
(* Threads of control:                                                     *)
(*   - caller threads, which call run_task / interrupt_task directly;      *)
(*   - the TaskRunner's own thread, whose event loop delivers, one at a    *)
(*     time and in posting order, the queued _sigStartTask requests and    *)
(*     the queued task / thread callbacks;                                 *)
(*   - one worker thread per started task.                                 *)
(* ModuleTask, the thread manager and the module manager are not part of   *)
(* taskrunner.py; they are modelled from their contract.                   *)
(***************************************************************************)
EXTENDS Integers, Sequences, FiniteSets, TLC

\* ---------------------------------------------------------------- bounds
\* run_task calls made in one behaviour
MaxCalls == 2

\* ------------------------------------------------------------- constants
Callers == {"c1"}

\* _module_task_configs: task name -> modules of its 'connect' mapping, in order
module_task_configs == [a |-> <<"m1", "m2">>, b |-> <<"m2", "m3">>]

\* the names on_activate puts into _configured_task_types: one type per configured name
configured_task_types == DOMAIN module_task_configs

\* a name that is not in the configuration
UnknownName == "x"
AllNames == configured_task_types \cup {UnknownName}

\* the task that callers of the main specification try to interrupt
InterruptNames == {"a"}

\* shapes of the objects a caller may pass as args / kwargs
ArgsShapes == {"list", "set", "int"}
KwargsShapes == {"strdict", "intdict", "pairs", "int"}

TerminalStates == {"finished", "error"}

\* task ids are 1, 2, ...; NoTask is the None of dict.get(name, None) / dict.pop(name, None)
NoTask == 0

VARIABLES
    caller_pc,       \* per caller: "idle", "run_task", "interrupt_task" (called, before the lock)
    caller_req,      \* per caller: the arguments of the pending call
    caller_result,   \* per caller: how its last call ended
    calls,           \* number of run_task calls made
    queue,           \* event queue of the TaskRunner thread (FIFO)
    _thread_lock,    \* holder of _thread_lock, or "free"
    mgr_pc,          \* position of the TaskRunner thread
    mgr_cur,         \* the slot invocation the TaskRunner thread is in
    _running_tasks,  \* name -> id of the recorded task instance, or NoTask
    tasks,           \* every ModuleTask instance created so far, by id
    active_modules,  \* modules activated through the module manager
    thread_names,    \* labels registered with the thread manager
    events,          \* per name: the sigTask* signals emitted, in order
    log,             \* the last exception logged by a start sequence
    _configured_task_types,  \* names with a configured task type
    sigStartTask_connected   \* whether _sigStartTask is connected to _run_task

vars == <<caller_pc, caller_req, caller_result, calls, queue, _thread_lock, mgr_pc,
          mgr_cur, _running_tasks, tasks, active_modules, thread_names, events, log,
          _configured_task_types, sigStartTask_connected>>

\* ------------------------------------------------------------- helpers
Range(s) == {s[i] : i \in 1..Len(s)}

Label(name) == <<"ModuleTask", name>>

NoCur == [name |-> "", task |-> NoTask, args0 |-> "", kwargs0 |-> ""]

\* an event posted to the TaskRunner thread; args0 / kwargs0 remember the shapes
\* the caller passed, which tuple() / dict() erase
Msg(type, name, args, kwargs, args0, kwargs0, state) ==
    [type |-> type, name |-> name, args |-> args, kwargs |-> kwargs,
     args0 |-> args0, kwargs0 |-> kwargs0, state |-> state]

Event(type, state, success) == [type |-> type, state |-> state, success |-> success]

NoReq == [name |-> "", args |-> "", kwargs |-> ""]

\* tuple(args): any iterable becomes a tuple, anything else raises TypeError
tuple(args) == IF args \in {"list", "set"} THEN "tuple" ELSE "TypeError"

\* dict(kwargs): a mapping or an iterable of key/value pairs becomes a dict
\* (keeping its keys), anything else raises TypeError
dict(kwargs) ==
    CASE kwargs \in {"strdict", "pairs"} -> "dict_str"
      [] kwargs = "intdict" -> "dict_int"
      [] OTHER -> "TypeError"

\* isinstance(args, Iterable)
is_iterable(args) == args \in {"tuple", "list", "set"}

\* isinstance(kwargs, Mapping) and all(isinstance(kw, str) for kw in kwargs)
is_str_mapping(kwargs) == kwargs \in {"dict_str", "strdict"}

NewTask(name) ==
    [name |-> name, state |-> "idle", success |-> FALSE, interrupted |-> FALSE,
     args |-> "", kwargs |-> "", connected_modules |-> {}, subscribed |-> FALSE,
     thread |-> "none", quit |-> FALSE]

Emit(name, ev) == [events EXCEPT ![name] = Append(@, ev)]

\* ------------------------------------------------------------------ Init
Init ==
    /\ caller_pc = [c \in Callers |-> "idle"]
    /\ caller_req = [c \in Callers |-> NoReq]
    /\ caller_result = [c \in Callers |-> "none"]
    /\ calls = 0
    /\ queue = <<>>
    /\ _thread_lock = "free"
    /\ mgr_pc = "idle"
    /\ mgr_cur = NoCur
    /\ _running_tasks = [n \in AllNames |-> NoTask]
    /\ tasks = <<>>
    /\ active_modules = {}
    /\ thread_names = {}
    /\ events = [n \in AllNames |-> <<>>]
    /\ log = [name |-> "", exc |-> "none"]
    /\ _configured_task_types = configured_task_types
    /\ sigStartTask_connected = TRUE

\* ------------------------------------------------------- caller threads
\* a caller thread enters run_task(name, args, kwargs)
run_task_call(c, name, args, kwargs) ==
    /\ caller_pc[c] = "idle"
    /\ calls < MaxCalls
    /\ caller_pc' = [caller_pc EXCEPT ![c] = "run_task"]
    /\ caller_req' = [caller_req EXCEPT ![c] = [name |-> name, args |-> args, kwargs |-> kwargs]]
    /\ calls' = calls + 1
    /\ UNCHANGED <<caller_result, queue, _thread_lock, mgr_pc, mgr_cur, _running_tasks,
                   tasks, active_modules, thread_names, events, log>>
    /\ UNCHANGED <<_configured_task_types, sigStartTask_connected>>

\* run_task: with the lock, emit _sigStartTask(name, tuple(args), dict(kwargs));
\* the connection is queued, so the emit posts a start request (to nobody once
\* on_deactivate has disconnected the signal)
run_task(c) ==
    /\ caller_pc[c] = "run_task"
    /\ _thread_lock = "free"
    /\ LET r == caller_req[c]
           bad == tuple(r.args) = "TypeError" \/ dict(r.kwargs) = "TypeError"
       IN  /\ queue' = IF bad \/ ~sigStartTask_connected THEN queue
                       ELSE Append(queue, Msg("start", r.name, tuple(r.args), dict(r.kwargs),
                                              r.args, r.kwargs, ""))
           /\ caller_result' = [caller_result EXCEPT ![c] = IF bad THEN "TypeError" ELSE "returned"]
    /\ caller_pc' = [caller_pc EXCEPT ![c] = "idle"]
    /\ caller_req' = [caller_req EXCEPT ![c] = NoReq]
    /\ UNCHANGED <<calls, _thread_lock, mgr_pc, mgr_cur, _running_tasks, tasks,
                   active_modules, thread_names, events, log>>
    /\ UNCHANGED <<_configured_task_types, sigStartTask_connected>>

\* a caller thread enters interrupt_task(name)
interrupt_task_call(c, name) ==
    /\ caller_pc[c] = "idle"
    /\ caller_pc' = [caller_pc EXCEPT ![c] = "interrupt_task"]
    /\ caller_req' = [caller_req EXCEPT ![c] = [name |-> name, args |-> "", kwargs |-> ""]]
    /\ UNCHANGED <<caller_result, calls, queue, _thread_lock, mgr_pc, mgr_cur, _running_tasks,
                   tasks, active_modules, thread_names, events, log>>
    /\ UNCHANGED <<_configured_task_types, sigStartTask_connected>>

\* interrupt_task that interrupts every running task once the name is running
interrupt_task_all(c) ==
    /\ caller_pc[c] = "interrupt_task"
    /\ _thread_lock = "free"
    /\ LET t == _running_tasks[caller_req[c].name]
       IN  IF t = NoTask
           THEN /\ caller_result' = [caller_result EXCEPT ![c] = "RuntimeError"]
                /\ UNCHANGED tasks
           ELSE /\ caller_result' = [caller_result EXCEPT ![c] = "returned"]
                /\ tasks' = [i \in 1..Len(tasks) |->
                                IF \E n \in AllNames : _running_tasks[n] = i
                                THEN [tasks[i] EXCEPT !.interrupted = TRUE]
                                ELSE tasks[i]]
    /\ caller_pc' = [caller_pc EXCEPT ![c] = "idle"]
    /\ caller_req' = [caller_req EXCEPT ![c] = NoReq]
    /\ UNCHANGED <<calls, queue, _thread_lock, mgr_pc, mgr_cur, _running_tasks,
                   active_modules, thread_names, events, log>>
    /\ UNCHANGED <<_configured_task_types, sigStartTask_connected>>

\* interrupt_task that looks the task up but never calls its interrupt method
interrupt_task_not_called(c) ==
    /\ caller_pc[c] = "interrupt_task"
    /\ _thread_lock = "free"
    /\ LET t == _running_tasks[caller_req[c].name]
       IN  caller_result' = [caller_result EXCEPT ![c] =
                                IF t = NoTask THEN "RuntimeError" ELSE "returned"]
    /\ caller_pc' = [caller_pc EXCEPT ![c] = "idle"]
    /\ caller_req' = [caller_req EXCEPT ![c] = NoReq]
    /\ UNCHANGED <<calls, queue, _thread_lock, mgr_pc, mgr_cur, _running_tasks, tasks,
                   active_modules, thread_names, events, log>>
    /\ UNCHANGED <<_configured_task_types, sigStartTask_connected>>

\* interrupt_task: with the lock, look the task up and call task.interrupt()
interrupt_task(c) ==
    /\ caller_pc[c] = "interrupt_task"
    /\ _thread_lock = "free"
    /\ LET t == _running_tasks[caller_req[c].name]
       IN  IF t = NoTask
           THEN /\ caller_result' = [caller_result EXCEPT ![c] = "RuntimeError"]
                /\ UNCHANGED tasks
           ELSE /\ caller_result' = [caller_result EXCEPT ![c] = "returned"]
                /\ tasks' = [tasks EXCEPT ![t].interrupted = TRUE]
    /\ caller_pc' = [caller_pc EXCEPT ![c] = "idle"]
    /\ caller_req' = [caller_req EXCEPT ![c] = NoReq]
    /\ UNCHANGED <<calls, queue, _thread_lock, mgr_pc, mgr_cur, _running_tasks,
                   active_modules, thread_names, events, log>>
    /\ UNCHANGED <<_configured_task_types, sigStartTask_connected>>

\* ------------------------------------------------- the TaskRunner thread
\* __init_task without the already-running check
__init_task_no_running_check(name) ==
    IF name \notin _configured_task_types THEN "KeyError" ELSE "ok"

\* __init_task that falls back to a default task type for an unknown name
__init_task_default_type(name) ==
    IF _running_tasks[name] # NoTask THEN "RuntimeError" ELSE "ok"

\* __init_task: the exception it raises, or "ok" when it returns a new instance
__init_task(name) ==
    IF _running_tasks[name] # NoTask THEN "RuntimeError"
    ELSE IF name \notin _configured_task_types THEN "KeyError"
    ELSE "ok"

\* __set_task_arguments that checks only that kwargs is a mapping
__set_task_arguments_no_key_check(args, kwargs) ==
    IF ~is_iterable(args) THEN "TypeError"
    ELSE IF kwargs \notin {"dict_str", "dict_int", "strdict", "intdict"} THEN "TypeError"
    ELSE "ok"

\* __set_task_arguments: the exception it raises, or "ok"
__set_task_arguments(args, kwargs) ==
    IF ~is_iterable(args) THEN "TypeError"
    ELSE IF ~is_str_mapping(kwargs) THEN "TypeError"
    ELSE "ok"

\* _run_task, first part: take the lock, __init_task, __set_task_arguments.
\* An exception leaves the with-block, which releases the lock.
_run_task ==
    /\ mgr_pc = "idle"
    /\ queue # <<>>
    /\ Head(queue).type = "start"
    /\ _thread_lock = "free"
    /\ queue' = Tail(queue)
    /\ LET m == Head(queue)
           r1 == __init_task(m.name)
           r2 == __set_task_arguments(m.args, m.kwargs)
           t == Len(tasks) + 1
       IN  IF r1 # "ok"
           THEN /\ log' = [name |-> m.name, exc |-> r1]
                /\ UNCHANGED <<tasks, mgr_pc, mgr_cur, _thread_lock>>
           ELSE IF r2 # "ok"
           THEN /\ tasks' = Append(tasks, NewTask(m.name))
                /\ log' = [name |-> m.name, exc |-> r2]
                /\ UNCHANGED <<mgr_pc, mgr_cur, _thread_lock>>
           ELSE /\ tasks' = Append(tasks, [NewTask(m.name) EXCEPT !.args = m.args,
                                                                  !.kwargs = m.kwargs])
                /\ mgr_pc' = "connect"
                /\ mgr_cur' = [name |-> m.name, task |-> t, args0 |-> m.args0,
                               kwargs0 |-> m.kwargs0]
                /\ _thread_lock' = "mgr"
                /\ UNCHANGED log
    /\ UNCHANGED <<caller_pc, caller_req, caller_result, calls, _running_tasks,
                   active_modules, thread_names, events>>
    /\ UNCHANGED <<_configured_task_types, sigStartTask_connected>>

\* where the module connection of a start may fail (0: nowhere)
FailurePoints == UNION {0..(Len(module_task_configs[n]) + 1) : n \in configured_task_types}

\* __activate_connect_task_modules whose except branch re-raises without
\* calling task.disconnect_modules()
__activate_connect_task_modules_no_cleanup(failed_at) ==
    /\ mgr_pc = "connect"
    /\ LET known == mgr_cur.name \in DOMAIN module_task_configs
           mods == IF known THEN module_task_configs[mgr_cur.name] ELSE <<>>
           n == Len(mods)
           t == mgr_cur.task
       IN  /\ failed_at \in 0..(n + 1)
           /\ ~known => failed_at = 1
           /\ active_modules' = active_modules \cup
                  {mods[i] : i \in 1..(IF failed_at \in 1..n THEN failed_at - 1 ELSE n)}
           /\ IF failed_at = 0
              THEN /\ tasks' = [tasks EXCEPT ![t].connected_modules = Range(mods)]
                   /\ mgr_pc' = "thread"
                   /\ UNCHANGED <<mgr_cur, _thread_lock, log>>
              ELSE /\ tasks' = [tasks EXCEPT ![t].connected_modules =
                                    IF failed_at = n + 1 THEN {mods[1]} ELSE {}]
                   /\ log' = [name |-> mgr_cur.name, exc |-> "ConnectError"]
                   /\ mgr_pc' = "idle"
                   /\ mgr_cur' = NoCur
                   /\ _thread_lock' = "free"
    /\ UNCHANGED <<caller_pc, caller_req, caller_result, calls, queue, _running_tasks,
                   thread_names, events>>
    /\ UNCHANGED <<_configured_task_types, sigStartTask_connected>>

\* __activate_connect_task_modules (the lock is still held): failed_at = 0 is
\* success; 1..n is a module lookup or activation that raises at the n-th module
\* (the earlier ones stay active, nothing is bound yet); n+1 is connect_modules
\* raising. The except branch calls task.disconnect_modules() and re-raises.
__activate_connect_task_modules(failed_at) ==
    /\ mgr_pc = "connect"
    /\ LET known == mgr_cur.name \in DOMAIN module_task_configs
           mods == IF known THEN module_task_configs[mgr_cur.name] ELSE <<>>
           n == Len(mods)
           t == mgr_cur.task
       IN  /\ failed_at \in 0..(n + 1)
           /\ ~known => failed_at = 1
           /\ active_modules' = active_modules \cup
                  {mods[i] : i \in 1..(IF failed_at \in 1..n THEN failed_at - 1 ELSE n)}
           /\ IF failed_at = 0
              THEN /\ tasks' = [tasks EXCEPT ![t].connected_modules = Range(mods)]
                   /\ mgr_pc' = "thread"
                   /\ UNCHANGED <<mgr_cur, _thread_lock, log>>
              ELSE /\ tasks' = [tasks EXCEPT ![t].connected_modules = {}]
                   /\ log' = [name |-> mgr_cur.name, exc |-> "ConnectError"]
                   /\ mgr_pc' = "idle"
                   /\ mgr_cur' = NoCur
                   /\ _thread_lock' = "free"
    /\ UNCHANGED <<caller_pc, caller_req, caller_result, calls, queue, _running_tasks,
                   thread_names, events>>
    /\ UNCHANGED <<_configured_task_types, sigStartTask_connected>>

\* thread_manager.get_new_thread(name=label): no thread when the label is still
\* registered or the host refuses for a reason of its own
get_new_thread(label, host_ok) == host_ok /\ label \notin thread_names

\* __connect_task_signals: sigFinished and sigStateChanged are connected (queued)
__connect_task_signals(t) == [tasks EXCEPT ![t].subscribed = TRUE]

\* __start_task that starts the thread without recording the entry
__start_task_unrecorded(name, t, ts) ==
    /\ UNCHANGED _running_tasks
    /\ tasks' = [ts EXCEPT ![t].thread = "running"]

\* __start_task: record the entry and start the thread (the thread's started
\* signal runs task.run in the worker)
__start_task(name, t, ts) ==
    /\ _running_tasks' = [_running_tasks EXCEPT ![name] = t]
    /\ tasks' = [ts EXCEPT ![t].thread = "running"]

\* __move_task_into_thread that logs the missing thread but does not raise, so
\* that the start goes on without one
__move_task_into_thread_no_raise(host_ok) ==
    /\ mgr_pc = "thread"
    /\ LET name == mgr_cur.name
           t == mgr_cur.task
       IN  IF ~get_new_thread(Label(name), host_ok)
           THEN /\ log' = [name |-> name, exc |-> "ThreadError"]
                /\ _running_tasks' = [_running_tasks EXCEPT ![name] = t]
                /\ tasks' = __connect_task_signals(t)
                /\ events' = Emit(name, Event("TaskStarted", "", FALSE))
                /\ UNCHANGED thread_names
           ELSE /\ thread_names' = thread_names \cup {Label(name)}
                /\ __start_task(name, t, __connect_task_signals(t))
                /\ events' = Emit(name, Event("TaskStarted", "", FALSE))
                /\ log' = [name |-> name, exc |-> "none"]
    /\ mgr_pc' = "idle"
    /\ mgr_cur' = NoCur
    /\ _thread_lock' = "free"
    /\ UNCHANGED <<caller_pc, caller_req, caller_result, calls, queue, active_modules>>
    /\ UNCHANGED <<_configured_task_types, sigStartTask_connected>>

\* _run_task, last part: __move_task_into_thread, __connect_task_signals,
\* __start_task, sigTaskStarted.emit(name); the with-block ends
__move_task_into_thread(host_ok) ==
    /\ mgr_pc = "thread"
    /\ LET name == mgr_cur.name
           t == mgr_cur.task
       IN  IF ~get_new_thread(Label(name), host_ok)
           THEN /\ log' = [name |-> name, exc |-> "ThreadError"]
                /\ UNCHANGED <<tasks, _running_tasks, thread_names, events>>
           ELSE /\ thread_names' = thread_names \cup {Label(name)}
                /\ __start_task(name, t, __connect_task_signals(t))
                /\ events' = Emit(name, Event("TaskStarted", "", FALSE))
                /\ log' = [name |-> name, exc |-> "none"]
    /\ mgr_pc' = "idle"
    /\ mgr_cur' = NoCur
    /\ _thread_lock' = "free"
    /\ UNCHANGED <<caller_pc, caller_req, caller_result, calls, queue, active_modules>>
    /\ UNCHANGED <<_configured_task_types, sigStartTask_connected>>

\* _task_state_changed_callback: relay the state (no lock is taken)
_task_state_changed_callback ==
    /\ mgr_pc = "idle"
    /\ queue # <<>>
    /\ Head(queue).type = "state_changed"
    /\ queue' = Tail(queue)
    /\ events' = Emit(Head(queue).name, Event("TaskStateChanged", Head(queue).state, FALSE))
    /\ UNCHANGED <<caller_pc, caller_req, caller_result, calls, _thread_lock, mgr_pc, mgr_cur,
                   _running_tasks, tasks, active_modules, thread_names, log>>
    /\ UNCHANGED <<_configured_task_types, sigStartTask_connected>>

\* _task_finished_callback that also publishes sigTaskFinished itself
_task_finished_callback_publishing ==
    /\ mgr_pc = "idle"
    /\ queue # <<>>
    /\ Head(queue).type = "task_finished"
    /\ _thread_lock = "free"
    /\ queue' = Tail(queue)
    /\ LET name == Head(queue).name
           t == _running_tasks[name]
       IN  IF t = NoTask
           THEN UNCHANGED <<tasks, mgr_pc, mgr_cur, _thread_lock, events>>
           ELSE /\ tasks' = [tasks EXCEPT ![t].subscribed = FALSE,
                                          ![t].connected_modules = {},
                                          ![t].quit = TRUE]
                /\ mgr_pc' = "join"
                /\ mgr_cur' = [name |-> name, task |-> t, args0 |-> "", kwargs0 |-> ""]
                /\ _thread_lock' = "mgr"
                /\ events' = Emit(name, Event("TaskFinished", "", tasks[t].success))
    /\ UNCHANGED <<caller_pc, caller_req, caller_result, calls, _running_tasks,
                   active_modules, thread_names, log>>
    /\ UNCHANGED <<_configured_task_types, sigStartTask_connected>>

\* _task_finished_callback that joins the thread without telling it to quit
_task_finished_callback_no_quit ==
    /\ mgr_pc = "idle"
    /\ queue # <<>>
    /\ Head(queue).type = "task_finished"
    /\ _thread_lock = "free"
    /\ queue' = Tail(queue)
    /\ LET name == Head(queue).name
           t == _running_tasks[name]
       IN  IF t = NoTask
           THEN UNCHANGED <<tasks, mgr_pc, mgr_cur, _thread_lock>>
           ELSE /\ tasks' = [tasks EXCEPT ![t].subscribed = FALSE,
                                          ![t].connected_modules = {}]
                /\ mgr_pc' = "join"
                /\ mgr_cur' = [name |-> name, task |-> t, args0 |-> "", kwargs0 |-> ""]
                /\ _thread_lock' = "mgr"
    /\ UNCHANGED <<caller_pc, caller_req, caller_result, calls, _running_tasks,
                   active_modules, thread_names, events, log>>
    /\ UNCHANGED <<_configured_task_types, sigStartTask_connected>>

\* _task_finished_callback that does not call task.disconnect_modules()
_task_finished_callback_keeps_modules ==
    /\ mgr_pc = "idle"
    /\ queue # <<>>
    /\ Head(queue).type = "task_finished"
    /\ _thread_lock = "free"
    /\ queue' = Tail(queue)
    /\ LET name == Head(queue).name
           t == _running_tasks[name]
       IN  IF t = NoTask
           THEN UNCHANGED <<tasks, mgr_pc, mgr_cur, _thread_lock>>
           ELSE /\ tasks' = [tasks EXCEPT ![t].subscribed = FALSE,
                                          ![t].quit = TRUE]
                /\ mgr_pc' = "join"
                /\ mgr_cur' = [name |-> name, task |-> t, args0 |-> "", kwargs0 |-> ""]
                /\ _thread_lock' = "mgr"
    /\ UNCHANGED <<caller_pc, caller_req, caller_result, calls, _running_tasks,
                   active_modules, thread_names, events, log>>
    /\ UNCHANGED <<_configured_task_types, sigStartTask_connected>>

\* _task_finished_callback up to the point where join_thread blocks: with the
\* lock, disconnect the task's signals and modules, quit the thread, wait
_task_finished_callback ==
    /\ mgr_pc = "idle"
    /\ queue # <<>>
    /\ Head(queue).type = "task_finished"
    /\ _thread_lock = "free"
    /\ queue' = Tail(queue)
    /\ LET name == Head(queue).name
           t == _running_tasks[name]
       IN  IF t = NoTask
           THEN UNCHANGED <<tasks, mgr_pc, mgr_cur, _thread_lock>>
           ELSE /\ tasks' = [tasks EXCEPT ![t].subscribed = FALSE,
                                          ![t].connected_modules = {},
                                          ![t].quit = TRUE]
                /\ mgr_pc' = "join"
                /\ mgr_cur' = [name |-> name, task |-> t, args0 |-> "", kwargs0 |-> ""]
                /\ _thread_lock' = "mgr"
    /\ UNCHANGED <<caller_pc, caller_req, caller_result, calls, _running_tasks,
                   active_modules, thread_names, events, log>>
    /\ UNCHANGED <<_configured_task_types, sigStartTask_connected>>

\* join_thread returns once the worker thread has exited; the with-block ends
join_thread ==
    /\ mgr_pc = "join"
    /\ tasks[mgr_cur.task].thread = "finished"
    /\ mgr_pc' = "idle"
    /\ mgr_cur' = NoCur
    /\ _thread_lock' = "free"
    /\ UNCHANGED <<caller_pc, caller_req, caller_result, calls, queue, _running_tasks, tasks,
                   active_modules, thread_names, events, log>>
    /\ UNCHANGED <<_configured_task_types, sigStartTask_connected>>

\* _thread_finished_callback that looks the entry up with get instead of pop
_thread_finished_callback_no_pop ==
    /\ mgr_pc = "idle"
    /\ queue # <<>>
    /\ Head(queue).type = "thread_finished"
    /\ _thread_lock = "free"
    /\ queue' = Tail(queue)
    /\ LET name == Head(queue).name
           t == _running_tasks[name]
       IN  /\ UNCHANGED _running_tasks
           /\ events' = IF t = NoTask THEN events
                         ELSE Emit(name, Event("TaskFinished", "", tasks[t].success))
    /\ UNCHANGED <<caller_pc, caller_req, caller_result, calls, _thread_lock, mgr_pc, mgr_cur,
                   tasks, active_modules, thread_names, log>>
    /\ UNCHANGED <<_configured_task_types, sigStartTask_connected>>

\* _thread_finished_callback with the None test inverted: nothing is published
\* for an entry that was found
_thread_finished_callback_inverted ==
    /\ mgr_pc = "idle"
    /\ queue # <<>>
    /\ Head(queue).type = "thread_finished"
    /\ _thread_lock = "free"
    /\ queue' = Tail(queue)
    /\ LET name == Head(queue).name
           t == _running_tasks[name]
       IN  /\ _running_tasks' = [_running_tasks EXCEPT ![name] = NoTask]
           /\ events' = IF t # NoTask THEN events
                         ELSE Emit(name, Event("TaskFinished", "", FALSE))
    /\ UNCHANGED <<caller_pc, caller_req, caller_result, calls, _thread_lock, mgr_pc, mgr_cur,
                   tasks, active_modules, thread_names, log>>
    /\ UNCHANGED <<_configured_task_types, sigStartTask_connected>>

\* _thread_finished_callback: with the lock, pop the entry and publish the result
_thread_finished_callback ==
    /\ mgr_pc = "idle"
    /\ queue # <<>>
    /\ Head(queue).type = "thread_finished"
    /\ _thread_lock = "free"
    /\ queue' = Tail(queue)
    /\ LET name == Head(queue).name
           t == _running_tasks[name]
       IN  /\ _running_tasks' = [_running_tasks EXCEPT ![name] = NoTask]
           /\ events' = IF t = NoTask THEN events
                         ELSE Emit(name, Event("TaskFinished", "", tasks[t].success))
    /\ UNCHANGED <<caller_pc, caller_req, caller_result, calls, _thread_lock, mgr_pc, mgr_cur,
                   tasks, active_modules, thread_names, log>>
    /\ UNCHANGED <<_configured_task_types, sigStartTask_connected>>

\* on_deactivate (run by the TaskRunner thread between two slots, no lock is
\* taken): _sigStartTask is disconnected, which leaves the start requests that
\* are already posted in the event queue; the loop over the running tasks only
\* evaluates the attribute task.interrupt, it calls nothing;
\* _configured_task_types is emptied
on_deactivate ==
    /\ mgr_pc = "idle"
    /\ sigStartTask_connected
    /\ sigStartTask_connected' = FALSE
    /\ _configured_task_types' = {}
    /\ UNCHANGED <<caller_pc, caller_req, caller_result, calls, queue, _thread_lock, mgr_pc,
                   mgr_cur, _running_tasks, tasks, active_modules, thread_names, events, log>>

\* on_activate of a runner that was deactivated: _running_tasks is replaced by
\* an empty dict, the task types are built from the config again and
\* _sigStartTask is connected (queued) to _run_task
on_activate ==
    /\ mgr_pc = "idle"
    /\ ~sigStartTask_connected
    /\ _running_tasks' = [n \in AllNames |-> NoTask]
    /\ _configured_task_types' = configured_task_types
    /\ sigStartTask_connected' = TRUE
    /\ UNCHANGED <<caller_pc, caller_req, caller_result, calls, queue, _thread_lock, mgr_pc,
                   mgr_cur, tasks, active_modules, thread_names, events, log>>

\* ------------------------------------------------------- worker threads
\* signals of task t that are connected are posted to the TaskRunner thread
Post(t, msgs) == IF tasks[t].subscribed THEN queue \o msgs ELSE queue

\* ModuleTask.run begins in the worker: idle -> running, sigStateChanged
ModuleTask_run(t) ==
    /\ t \in 1..Len(tasks)
    /\ tasks[t].thread = "running"
    /\ tasks[t].state = "idle"
    /\ tasks' = [tasks EXCEPT ![t].state = "running"]
    /\ queue' = Post(t, <<Msg("state_changed", tasks[t].name, "", "", "", "", "running")>>)
    /\ UNCHANGED <<caller_pc, caller_req, caller_result, calls, _thread_lock, mgr_pc, mgr_cur,
                   _running_tasks, active_modules, thread_names, events, log>>
    /\ UNCHANGED <<_configured_task_types, sigStartTask_connected>>

\* ModuleTask.run ends: a terminal state, sigStateChanged, then sigFinished.
\* An interrupted task may stop without success or ignore the request.
ModuleTask_finished(t, state, success) ==
    /\ t \in 1..Len(tasks)
    /\ tasks[t].thread = "running"
    /\ tasks[t].state = "running"
    /\ state \in TerminalStates
    /\ state = "error" => ~success
    /\ (state = "finished" /\ ~success) => tasks[t].interrupted
    /\ tasks' = [tasks EXCEPT ![t].state = state, ![t].success = success]
    /\ queue' = Post(t, <<Msg("state_changed", tasks[t].name, "", "", "", "", state),
                          Msg("task_finished", tasks[t].name, "", "", "", "", "")>>)
    /\ UNCHANGED <<caller_pc, caller_req, caller_result, calls, _thread_lock, mgr_pc, mgr_cur,
                   _running_tasks, active_modules, thread_names, events, log>>
    /\ UNCHANGED <<_configured_task_types, sigStartTask_connected>>

\* the worker's event loop, told to quit, ends once run has returned: the thread
\* exits, its label is unregistered and its finished signal reaches the
\* TaskRunner thread as a queued _thread_finished_callback(name)
QThread_finished(t) ==
    /\ t \in 1..Len(tasks)
    /\ tasks[t].thread = "running"
    /\ tasks[t].quit
    /\ tasks[t].state \in TerminalStates
    /\ tasks' = [tasks EXCEPT ![t].thread = "finished"]
    /\ thread_names' = thread_names \ {Label(tasks[t].name)}
    /\ queue' = Append(queue, Msg("thread_finished", tasks[t].name, "", "", "", "", ""))
    /\ UNCHANGED <<caller_pc, caller_req, caller_result, calls, _thread_lock, mgr_pc, mgr_cur,
                   _running_tasks, active_modules, events, log>>
    /\ UNCHANGED <<_configured_task_types, sigStartTask_connected>>

\* ------------------------------------------------------------------ Next
\* callers of the main specification pass a list and a string-keyed dict
Caller(c) ==
    \/ \E name \in AllNames : run_task_call(c, name, "list", "strdict")
    \/ run_task(c)
    \/ \E name \in InterruptNames : interrupt_task_call(c, name)
    \/ interrupt_task(c)

Manager ==
    \/ _run_task
    \/ \E failed_at \in FailurePoints : __activate_connect_task_modules(failed_at)
    \/ \E host_ok \in BOOLEAN : __move_task_into_thread(host_ok)
    \/ _task_state_changed_callback
    \/ _task_finished_callback
    \/ join_thread
    \/ _thread_finished_callback

Worker(t) ==
    \/ ModuleTask_run(t)
    \/ \E state \in TerminalStates, success \in BOOLEAN : ModuleTask_finished(t, state, success)
    \/ QThread_finished(t)

Next ==
    \/ \E c \in Callers : Caller(c)
    \/ Manager
    \/ \E t \in 1..MaxCalls : Worker(t)

Spec == Init /\ [][Next]_vars

\* the same program under fair scheduling: the TaskRunner thread's event loop
\* keeps delivering, and every worker thread keeps running
FairSpec == Spec /\ WF_vars(Manager) /\ \A t \in 1..MaxCalls : WF_vars(Worker(t))

\* the same program with callers that pass args / kwargs of every shape
CallerAnyShape(c) ==
    \/ \E name \in {"a", UnknownName}, args \in ArgsShapes, kwargs \in KwargsShapes :
          run_task_call(c, name, args, kwargs)
    \/ run_task(c)

NextArgs ==
    \/ \E c \in Callers : CallerAnyShape(c)
    \/ Manager
    \/ \E t \in 1..MaxCalls : Worker(t)

SpecArgs == Init /\ [][NextArgs]_vars

\* the same program with the module being deactivated and activated again
NextLifecycle ==
    \/ Next
    \/ on_deactivate
    \/ on_activate

SpecLifecycle == Init /\ [][NextLifecycle]_vars

\* -------------------------------------------------------------- claims
Last(seq) == seq[Len(seq)]

Count(seq, type) == Cardinality({i \in 1..Len(seq) : seq[i].type = type})

\* the TaskRunner thread takes a start request for name out of its queue
StartStep(name) ==
    /\ mgr_pc = "idle"
    /\ queue # <<>>
    /\ Head(queue).type = "start"
    /\ Head(queue).name = name
    /\ queue' = Tail(queue)

\* the TaskRunner thread runs the thread-allocation part of a start of name
ThreadStep(name) ==
    /\ mgr_pc = "thread"
    /\ mgr_cur.name = name
    /\ mgr_pc' = "idle"

\* sigTaskFinished(name, ...) is emitted in this step
PublishesFinished(name) ==
    /\ Len(events'[name]) > Len(events[name])
    /\ Last(events'[name]).type = "TaskFinished"

\* C1: while a name is in _running_tasks, no step replaces the recorded
\* instance, creates another task instance of that name or gives the name a
\* second live worker thread; the recorded instance is of that name.
C1_OneLiveInstance ==
    [][\A n \in AllNames :
          /\ _running_tasks[n] # NoTask =>
                /\ _running_tasks'[n] \in {NoTask, _running_tasks[n]}
                /\ \A t \in (Len(tasks) + 1)..Len(tasks') : tasks'[t].name # n
          /\ Cardinality({t \in 1..Len(tasks') :
                            tasks'[t].name = n /\ tasks'[t].thread = "running"}) <= 1
          /\ _running_tasks'[n] # NoTask => tasks'[_running_tasks'[n]].name = n]_vars

\* a start request for a running name was processed and rejected
C1_Witness ==
    /\ log = [name |-> "a", exc |-> "RuntimeError"]
    /\ _running_tasks["a"] # NoTask
    /\ Len(tasks) = 1

\* C2: per name, TaskFinished is never published more often than TaskStarted,
\* two TaskFinished are always separated by a TaskStarted, and there are never
\* more TaskFinished than task instances of the name whose thread has exited
\* (none for a start that was rejected or aborted).
C2_FinishedAtMostOnce ==
    \A n \in AllNames :
        /\ Count(events[n], "TaskFinished") <= Count(events[n], "TaskStarted")
        /\ \A i, j \in 1..Len(events[n]) :
              (i < j /\ events[n][i].type = "TaskFinished" /\ events[n][j].type = "TaskFinished")
                 => \E k \in (i + 1)..(j - 1) : events[n][k].type = "TaskStarted"
        /\ Count(events[n], "TaskFinished") <=
              Cardinality({t \in 1..Len(tasks) : tasks[t].name = n /\ tasks[t].thread = "finished"})

\* one run of a name was published as finished and a later start of it was aborted
C2_Witness ==
    \E n \in configured_task_types :
        /\ Count(events[n], "TaskFinished") = 1
        /\ Count(events[n], "TaskStarted") = 1
        /\ log.name = n
        /\ log.exc \in {"ConnectError", "ThreadError"}

\* C3: under fair scheduling, whenever the recorded task of a name has reached a
\* terminal state (and so emitted sigFinished), the name is eventually out of
\* _running_tasks with a TaskFinished published for each TaskStarted.
C3_FinishedLeadsToPublished ==
    \A n \in configured_task_types :
        (/\ _running_tasks[n] # NoTask
         /\ tasks[_running_tasks[n]].state \in TerminalStates)
        ~> (/\ _running_tasks[n] = NoTask
            /\ Count(events[n], "TaskFinished") = Count(events[n], "TaskStarted"))

\* a task finished with an error, its thread was joined and its result published
C3_Witness ==
    \E n \in configured_task_types :
        /\ events[n] # <<>>
        /\ Last(events[n]) = Event("TaskFinished", "", FALSE)
        /\ _running_tasks[n] = NoTask
        /\ mgr_pc = "idle"
        /\ \E t \in 1..Len(tasks) : tasks[t].name = n /\ tasks[t].state = "error"

\* C4: the TaskRunner thread is never blocked in join_thread while it holds
\* _thread_lock.
C4_NoJoinUnderLock == ~(mgr_pc = "join" /\ _thread_lock = "mgr")

\* C5: in the step that publishes TaskFinished(name), name is out of
\* _running_tasks, and the instance it was recorded with has no bound modules
\* and a thread that has exited.
C5_FinishedAfterRelease ==
    [][\A n \in AllNames :
          PublishesFinished(n) =>
              /\ _running_tasks'[n] = NoTask
              /\ _running_tasks[n] # NoTask
              /\ tasks'[_running_tasks[n]].connected_modules = {}
              /\ tasks'[_running_tasks[n]].thread = "finished"]_vars

\* a task that had modules bound was published as finished
C5_Witness ==
    \E t \in 1..Len(tasks) :
        /\ tasks[t].thread = "finished"
        /\ tasks[t].connected_modules = {}
        /\ tasks[t].state = "finished"
        /\ _running_tasks[tasks[t].name] = NoTask
        /\ Count(events[tasks[t].name], "TaskFinished") = 1

PrevRunFinished(name) == events[name] # <<>> /\ Last(events[name]).type = "TaskFinished"

\* C6: when the last event published for a name is TaskFinished, a start
\* request for it that the TaskRunner thread takes up passes __init_task (a new
\* instance is created), and its thread allocation never finds the label
\* ModuleTask-<name> still registered.
C6_RerunAccepted ==
    [][\A n \in configured_task_types :
          PrevRunFinished(n) =>
              /\ StartStep(n) => Len(tasks') = Len(tasks) + 1
              /\ ThreadStep(n) => Label(n) \notin thread_names]_vars

\* a name was started a second time after its first run was published finished
C6_Witness ==
    \E n \in configured_task_types :
        /\ Count(events[n], "TaskStarted") = 2
        /\ Count(events[n], "TaskFinished") = 1
        /\ _running_tasks[n] = 2

\* C7: per name, the published events repeat TaskStarted, TaskStateChanged*,
\* TaskFinished: TaskStarted is first or follows TaskFinished, and
\* TaskStateChanged and TaskFinished follow TaskStarted or TaskStateChanged.
C7_EventPattern ==
    \A n \in AllNames : \A i \in 1..Len(events[n]) :
        IF events[n][i].type = "TaskStarted"
        THEN i = 1 \/ events[n][i - 1].type = "TaskFinished"
        ELSE i > 1 /\ events[n][i - 1].type \in {"TaskStarted", "TaskStateChanged"}

\* a complete run with both state changes relayed, followed by the next run's start
C7_Witness ==
    \E n \in configured_task_types :
        /\ Len(events[n]) = 5
        /\ events[n][2] = Event("TaskStateChanged", "running", FALSE)
        /\ events[n][3] = Event("TaskStateChanged", "finished", FALSE)
        /\ events[n][4].type = "TaskFinished"
        /\ events[n][5].type = "TaskStarted"

\* C8: no caller that has entered run_task or interrupt_task is kept waiting
\* for _thread_lock by a TaskRunner thread that holds it while waiting for a
\* worker thread to exit.
C8_CallersNeverWaitForThreadExit ==
    \A c \in Callers :
        ~(/\ caller_pc[c] \in {"run_task", "interrupt_task"}
          /\ _thread_lock = "mgr"
          /\ mgr_pc = "join"
          /\ tasks[mgr_cur.task].thread = "running")

\* the caller's call ends in this step
CallEnds(c, call) == caller_pc[c] = call /\ caller_pc'[c] = "idle"

\* the step records no entry, activates and binds no module, allocates no
\* thread and publishes no event (it may create an instance that is dropped)
NothingStarted ==
    /\ UNCHANGED <<_running_tasks, active_modules, thread_names, events>>
    /\ \A t \in 1..Len(tasks) : tasks'[t] = tasks[t]
    /\ \A t \in (Len(tasks) + 1)..Len(tasks') :
          tasks'[t].connected_modules = {} /\ tasks'[t].thread = "none"

IsOrderedSequence(args) == args = "list"

IsStrKeyedMapping(kwargs) == kwargs = "strdict"

CheckErrors == {"KeyError", "RuntimeError", "TypeError"}

\* C11: every run request that fails the unknown-name, already-running or
\* argument-shape check fails it inside the caller's own run_task call, which
\* ends with that error: a step in which the queued start sequence rejects a
\* request is a step in which a run_task call ends with the error.
C11_ChecksRaisedToCaller ==
    [][\A n \in AllNames :
          (StartStep(n) /\ mgr_pc' = "idle")
             => \E c \in Callers :
                   CallEnds(c, "run_task") /\ caller_result'[c] \in CheckErrors]_vars

\* C12: interrupt_task(name) ends with RuntimeError and changes no entry and no
\* task exactly when name has no entry; otherwise it returns normally, the
\* recorded instance and no other is interrupted, and the entries stay.
C12_InterruptExactlyRunning ==
    [][\A c \in Callers :
          CallEnds(c, "interrupt_task") =>
              LET t == _running_tasks[caller_req[c].name]
              IN  /\ UNCHANGED <<_running_tasks, events, queue, thread_names>>
                  /\ caller_result'[c] = "RuntimeError" <=> t = NoTask
                  /\ t = NoTask => tasks' = tasks
                  /\ t # NoTask =>
                        /\ caller_result'[c] = "returned"
                        /\ tasks' = [tasks EXCEPT ![t].interrupted = TRUE]]_vars

\* a was interrupted while it had an entry, and the call returned normally
C12_Witness ==
    /\ _running_tasks["a"] # NoTask
    /\ tasks[_running_tasks["a"]].interrupted
    /\ \E c \in Callers : caller_result[c] = "returned" /\ caller_pc[c] = "idle"
    /\ \A t \in 1..Len(tasks) : t # _running_tasks["a"] => ~tasks[t].interrupted

\* the module activation and connection of a start of name fails in this step
ConnectFails(name) ==
    /\ mgr_pc = "connect"
    /\ mgr_cur.name = name
    /\ mgr_pc' = "idle"

\* C13: when the module activation or connection of a start fails, the
\* instance is left with no bound module, it has no thread and no thread label
\* is registered for it, no entry is added, no event is published, the error is
\* logged, and no caller's call outcome is touched.
C13_ConnectFailureAborts ==
    [][\A n \in AllNames :
          ConnectFails(n) =>
              /\ tasks'[mgr_cur.task].connected_modules = {}
              /\ tasks'[mgr_cur.task].thread = "none"
              /\ \A t \in 1..Len(tasks) : t # mgr_cur.task => tasks'[t] = tasks[t]
              /\ UNCHANGED <<_running_tasks, thread_names, events, queue,
                             caller_result, caller_pc>>
              /\ log' = [name |-> n, exc |-> "ConnectError"]
              /\ _thread_lock' = "free"]_vars

\* the start of a failed at its second module: the first one was activated,
\* nothing is bound, no thread exists and nothing was published
C13_Witness ==
    /\ log = [name |-> "a", exc |-> "ConnectError"]
    /\ active_modules = {module_task_configs["a"][1]}
    /\ Len(tasks) = 1
    /\ tasks[1].connected_modules = {}
    /\ thread_names = {}
    /\ _running_tasks["a"] = NoTask
    /\ events["a"] = <<>>
    /\ \A c \in Callers : caller_result[c] = "returned"

\* C14: a thread-allocation step either starts the thread, records the entry
\* and publishes TaskStarted, or (no thread) logs the error and leaves every
\* entry, every task, every event sequence, the registered labels and the
\* pending callbacks as they were; TaskFinished is never published more often
\* than TaskStarted.
C14_NoThreadAborts ==
    [][\A n \in AllNames :
          /\ ThreadStep(n) =>
                IF tasks'[mgr_cur.task].thread = "running"
                THEN /\ _running_tasks'[n] = mgr_cur.task
                     /\ events'[n] = Append(events[n], Event("TaskStarted", "", FALSE))
                ELSE /\ log' = [name |-> n, exc |-> "ThreadError"]
                     /\ UNCHANGED <<_running_tasks, events, thread_names, queue>>
                     /\ \A t \in 1..Len(tasks) :
                           t # mgr_cur.task =>  tasks'[t] = tasks[t]
                     /\ _thread_lock' = "free"
          /\ Count(events'[n], "TaskFinished") <= Count(events'[n], "TaskStarted")]_vars

\* the start of b got no thread while a was running: b has no entry and no
\* event, a's entry and its running instance are as they were
C14_Witness ==
    /\ log = [name |-> "b", exc |-> "ThreadError"]
    /\ _running_tasks["b"] = NoTask
    /\ events["b"] = <<>>
    /\ Len(tasks) = 2
    /\ tasks[1].name = "a"
    /\ tasks[1].state = "running"
    /\ _running_tasks["a"] = 1

\* C15: no two task instances recorded in _running_tasks are bound to the same
\* module.
C15_NoSharedModule ==
    \A n, m \in AllNames :
        (n # m /\ _running_tasks[n] # NoTask /\ _running_tasks[m] # NoTask)
           => tasks[_running_tasks[n]].connected_modules
                 \cap tasks[_running_tasks[m]].connected_modules = {}

\* C16 as claimed: a name is in _running_tasks exactly when an instance of that
\* name runs in a started worker thread and has not reached a terminal state.
C16_EntryIffExecuting ==
    \A n \in AllNames :
        _running_tasks[n] # NoTask
           <=> \E t \in 1..Len(tasks) :
                  /\ tasks[t].name = n
                  /\ tasks[t].thread = "running"
                  /\ tasks[t].state \notin TerminalStates

\* the finished notification of a worker thread of name waits in the
\* TaskRunner thread's event queue
ThreadFinishedPending(name) ==
    \E i \in 1..Len(queue) : queue[i].type = "thread_finished" /\ queue[i].name = name

\* the instance was given a started worker thread and _thread_finished_callback
\* has not yet handled that thread's finished notification
Dispatched(t) ==
    \/ tasks[t].thread = "running"
    \/ tasks[t].thread = "finished" /\ ThreadFinishedPending(tasks[t].name)

\* the entries are those of the dispatched instances
EntriesAreDispatched ==
    \A n \in AllNames :
        /\ _running_tasks[n] # NoTask
              <=> \E t \in 1..Len(tasks) : tasks[t].name = n /\ Dispatched(t)
        /\ _running_tasks[n] # NoTask
              => tasks[_running_tasks[n]].name = n /\ Dispatched(_running_tasks[n])

\* C16: a name is in _running_tasks exactly from the start of its instance's
\* worker thread until _thread_finished_callback handles that thread's finished
\* notification (the instance may already have reached a terminal state), and
\* an entry is removed only when the thread of its instance has exited.
C16_EntryFromStartToThreadExit ==
    [][/\ EntriesAreDispatched'
       /\ \A n \in AllNames :
             (_running_tasks[n] # NoTask /\ _running_tasks'[n] = NoTask)
                => /\ tasks[_running_tasks[n]].thread = "finished"
                   /\ tasks[_running_tasks[n]].state \in TerminalStates]_vars

\* a has reached a terminal state and its thread has exited, and its entry is
\* still there because the thread's finished notification is not yet handled
C16_Witness ==
    /\ _running_tasks["a"] # NoTask
    /\ tasks[_running_tasks["a"]].state \in TerminalStates
    /\ tasks[_running_tasks["a"]].thread = "finished"
    /\ ThreadFinishedPending("a")

\* a step of interrupt_task(name) or of the completion and termination
\* sequence of name (_task_finished_callback, its join, _thread_finished_callback)
InterruptOrTeardownStep(name) ==
    \/ \E c \in Callers : CallEnds(c, "interrupt_task") /\ caller_req[c].name = name
    \/ /\ mgr_pc = "idle"
       /\ queue # <<>>
       /\ Head(queue).type \in {"task_finished", "thread_finished"}
       /\ Head(queue).name = name
       /\ queue' = Tail(queue)
    \/ /\ mgr_pc = "join"
       /\ mgr_cur.name = name
       /\ mgr_pc' = "idle"

\* C17: interrupt_task(a) and every step of a's completion and termination
\* sequence leave the entry, the instance (its state, bound modules, signal
\* subscriptions, thread) and the published events of every other running
\* name b as they were, and a running b is eventually out of _running_tasks
\* with TaskFinished(b) published last.
C17_OtherTaskUnaffected ==
    /\ [][\A a, b \in AllNames :
             (a # b /\ _running_tasks[b] # NoTask /\ InterruptOrTeardownStep(a))
                => /\ _running_tasks'[b] = _running_tasks[b]
                   /\ tasks'[_running_tasks[b]] = tasks[_running_tasks[b]]
                   /\ events'[b] = events[b]]_vars
    /\ \A b \in configured_task_types :
          (_running_tasks[b] # NoTask)
             ~> (_running_tasks[b] = NoTask /\ PrevRunFinished(b))

\* a was interrupted and published as finished while b, never interrupted, is
\* still running with its modules bound and its signals subscribed
C17_Witness ==
    /\ _running_tasks["a"] = NoTask
    /\ events["a"] # <<>>
    /\ Last(events["a"]) = Event("TaskFinished", "", FALSE)
    /\ \E t \in 1..Len(tasks) : tasks[t].name = "a" /\ tasks[t].interrupted
    /\ _running_tasks["b"] # NoTask
    /\ ~tasks[_running_tasks["b"]].interrupted
    /\ tasks[_running_tasks["b"]].state = "running"
    /\ tasks[_running_tasks["b"]].subscribed
    /\ tasks[_running_tasks["b"]].connected_modules = Range(module_task_configs["b"])

\* C18: _thread_lock is not held while the start sequence activates and
\* connects the modules, nor while it allocates and starts the worker thread.
C18_LockOnlyForBookkeeping ==
    mgr_pc \in {"connect", "thread"} => _thread_lock # "mgr"

\* C19: modules are bound to a task instance only while its start is in
\* progress or while it is the instance recorded in _running_tasks.
C19_AbandonedHoldsNoModules ==
    \A t \in 1..Len(tasks) :
        tasks[t].connected_modules # {}
           => \/ mgr_pc \in {"connect", "thread"} /\ mgr_cur.task = t
              \/ _running_tasks[tasks[t].name] = t

\* C20: the step of on_deactivate leaves every task instance that is in
\* _running_tasks interrupted, and while the runner is deactivated no entry is
\* recorded and no TaskStarted is published.
C20_DeactivateInterruptsAndStops ==
    [][/\ (sigStartTask_connected /\ ~sigStartTask_connected')
             => \A n \in AllNames :
                   _running_tasks[n] # NoTask => tasks'[_running_tasks[n]].interrupted
       /\ (~sigStartTask_connected /\ ~sigStartTask_connected')
             => \A n \in AllNames :
                   /\ _running_tasks'[n] \in {NoTask, _running_tasks[n]}
                   /\ Count(events'[n], "TaskStarted") = Count(events[n], "TaskStarted")]_vars

====
